---- MODULE Spec2Model ----
(***************************************************************************)
(* Fusion (CombinedPIIDetector._merge_entities) and rewriting              *)
(* (CombinedPIIDetector.anonymize_text) of src/combined_pii_detector.py.   *)
(*                                                                         *)
(* A Python str is a sequence of one-character strings, so that slicing,   *)
(* concatenation, upper() and split() are computed character by character. *)
(* A confidence is an integer number of hundredths (0.95 is 95).           *)
(***************************************************************************)
EXTENDS Integers, Sequences, FiniteSets, TLC

VARIABLES
    text,             \* the text handed to detect_pii / anonymize_text
    strategy,         \* the strategy argument of anonymize_text
    candidates,       \* the detectors' candidates as first collected (never changed)
    all_entities,     \* the list object handed to _merge_entities (sorted in place)
    entities,         \* the merged entities (the objects anonymize_text annotates)
    remerged,         \* _merge_entities applied to its own output
    entities_sorted,  \* indices into entities, by start descending
    k,                \* position of the anonymize loop in entities_sorted
    anonymized_text,  \* the text buffer of anonymize_text
    mapping,          \* the mapping dict of anonymize_text
    result,           \* the dict anonymize_text returns
    pc,               \* where the call stands
    permuted,         \* _merge_entities applied to the candidates in another order
    heap,             \* the PIIEntity objects, each known by its reference
    ref_entities,     \* the list handed to _merge_entities, as references
    ref_merged,       \* the list _merge_entities returns, as references
    is_loaded,        \* Model.is_loaded of the server
    detector,         \* Model.detector of the server (None while the attribute is unset)
    outcome           \* how the last call of Model.load or Model.infer ended

\* the objects of _merge_entities
objectVars == <<heap, ref_entities, ref_merged>>

\* the server's Model
serverVars == <<is_loaded, detector, outcome>>

vars == <<text, strategy, candidates, all_entities, entities, remerged,
          entities_sorted, k, anonymized_text, mapping, result, pc,
          permuted, objectVars, serverVars>>

----------------------------------------------------------------------------
(* Python str and list primitives *)

Ascii == <<" ","!","\"","#","$","%","&","'","(",")","*","+",",","-",".","/",
           "0","1","2","3","4","5","6","7","8","9",":",";","<","=",">","?",
           "@","A","B","C","D","E","F","G","H","I","J","K","L","M","N","O",
           "P","Q","R","S","T","U","V","W","X","Y","Z","[","\\","]","^","_",
           "<grave accent>","a","b","c","d","e","f","g","h","i","j","k","l","m","n","o",
           "p","q","r","s","t","u","v","w","x","y","z","{","|","}","~">>

\* ord(c) of a printable ASCII character (Ascii[i] is chr(31 + i); the grave
\* accent, chr(96), cannot be written in a string here and is spelled out)
CharCode ==
    [c \in {Ascii[i] : i \in 1..Len(Ascii)} |->
        31 + (CHOOSE i \in 1..Len(Ascii) : Ascii[i] = c)]

Ord(c) == CharCode[c]

Min(a, b) == IF a <= b THEN a ELSE b

Max(a, b) == IF a >= b THEN a ELSE b

\* Python None: no str equals it, since every element of a str is one character
NoneValue == <<"None">>

\* a slice bound i resolved against a sequence of length n
PyIndex(i, n) == IF i < 0 THEN Max(i + n, 0) ELSE Min(i, n)

\* s[lo:hi]
Slice(s, lo, hi) ==
    LET a == PyIndex(lo, Len(s))
        b == PyIndex(hi, Len(s))
    IN  IF a < b THEN SubSeq(s, a + 1, b) ELSE <<>>

\* s[:hi]
SliceTo(s, hi) == Slice(s, 0, hi)

\* s[lo:]
SliceFrom(s, lo) == Slice(s, lo, Len(s))

\* c * n
Repeat(c, n) == [i \in 1..n |-> c]

\* c.upper() for one character
UpperChar(c) ==
    IF Ord(c) >= 97 /\ Ord(c) <= 122 THEN Ascii[Ord(c) - 32 - 31] ELSE c

\* s.upper()
Upper(s) == [i \in 1..Len(s) |-> UpperChar(s[i])]

\* s.split(): the maximal runs of non-whitespace characters
RECURSIVE SplitWords(_, _, _)
SplitWords(s, i, word) ==
    IF i > Len(s)
    THEN IF word = <<>> THEN <<>> ELSE <<word>>
    ELSE IF s[i] = " "
         THEN (IF word = <<>> THEN <<>> ELSE <<word>>) \o SplitWords(s, i + 1, <<>>)
         ELSE SplitWords(s, i + 1, Append(word, s[i]))

Split(s) == SplitWords(s, 1, <<>>)

\* s.split(sep) for a one-character separator: the pieces between separators
RECURSIVE SplitPieces(_, _, _, _)
SplitPieces(s, sep, i, piece) ==
    IF i > Len(s)
    THEN <<piece>>
    ELSE IF s[i] = sep
         THEN <<piece>> \o SplitPieces(s, sep, i + 1, <<>>)
         ELSE SplitPieces(s, sep, i + 1, Append(piece, s[i]))

SplitOn(s, sep) == SplitPieces(s, sep, 1, <<>>)

HexDigits == <<"0","1","2","3","4","5","6","7","8","9","a","b","c","d","e","f">>

RECURSIVE ByteSum(_, _)
ByteSum(s, i) == IF i > Len(s) THEN 0 ELSE (Ord(s[i]) * (i + 6)) + ByteSum(s, i + 1)

\* hashlib.md5(s.encode()).hexdigest(): 32 hexadecimal digits, a function of the
\* bytes of s.  The compression function of the library is not part of the
\* repository; the digits here are a fixed deterministic digest of the bytes.
DigestDigits(seed) ==
    [i \in 1..32 |-> HexDigits[(((seed * (2 * i + 5)) + (i * i)) % 16) + 1]]

Md5HexDigest(s) == DigestDigits(ByteSum(s, 1) + Len(s) + 1)

----------------------------------------------------------------------------
(* PIIEntity and _merge_entities *)

PIIEntity(entity_type, t, start, end, confidence, source) ==
    [entity_type |-> entity_type, text |-> t, start |-> start, end |-> end,
     confidence |-> confidence, source |-> source, anonymized_value |-> NoneValue]

\* list.sort(key=lambda x: x.start): stable, ascending
RECURSIVE InsertByStart(_, _)
InsertByStart(sorted, e) ==
    IF sorted = <<>> THEN <<e>>
    ELSE IF Head(sorted).start <= e.start
         THEN <<Head(sorted)>> \o InsertByStart(Tail(sorted), e)
         ELSE <<e>> \o sorted

\* mutant: the list is not sorted before the sweep
SortByStartSkipped(s) == s

RECURSIVE SortByStart(_)
SortByStart(s) ==
    IF s = <<>> THEN <<>>
    ELSE InsertByStart(SortByStart(SubSeq(s, 1, Len(s) - 1)), s[Len(s)])

\* mutant: touching spans are not merged
OverlapsStrictly(current, next_entity) ==
    next_entity.start < current.end /\ next_entity.end > current.start

\* the overlap test of the sweep
Overlaps(current, next_entity) ==
    next_entity.start <= current.end /\ next_entity.end >= current.start

\* mutant: the merged end is the later candidate's end, not the maximum
MergePairNoMax(current, next_entity) ==
    IF next_entity.confidence > current.confidence
    THEN PIIEntity(next_entity.entity_type, next_entity.text,
                   Min(current.start, next_entity.start), next_entity.end,
                   next_entity.confidence,
                   current.source \o <<"+">> \o next_entity.source)
    ELSE PIIEntity(current.entity_type, current.text,
                   Min(current.start, next_entity.start), next_entity.end,
                   current.confidence,
                   current.source \o <<"+">> \o next_entity.source)

\* mutant: the accumulator always wins, whatever the confidences
MergePairKeepsCurrent(current, next_entity) ==
    PIIEntity(current.entity_type, current.text,
              Min(current.start, next_entity.start),
              Max(current.end, next_entity.end),
              current.confidence,
              current.source \o <<"+">> \o next_entity.source)

\* mutant: the winner's source is written first
MergePairWinnerSourceFirst(current, next_entity) ==
    IF next_entity.confidence > current.confidence
    THEN PIIEntity(next_entity.entity_type, next_entity.text,
                   Min(current.start, next_entity.start),
                   Max(current.end, next_entity.end),
                   next_entity.confidence,
                   next_entity.source \o <<"+">> \o current.source)
    ELSE PIIEntity(current.entity_type, current.text,
                   Min(current.start, next_entity.start),
                   Max(current.end, next_entity.end),
                   current.confidence,
                   current.source \o <<"+">> \o next_entity.source)

\* mutant: on equal confidence the later candidate wins
MergePairTiesToNext(current, next_entity) ==
    IF next_entity.confidence >= current.confidence
    THEN PIIEntity(next_entity.entity_type, next_entity.text,
                   Min(current.start, next_entity.start),
                   Max(current.end, next_entity.end),
                   next_entity.confidence,
                   current.source \o <<"+">> \o next_entity.source)
    ELSE PIIEntity(current.entity_type, current.text,
                   Min(current.start, next_entity.start),
                   Max(current.end, next_entity.end),
                   current.confidence,
                   current.source \o <<"+">> \o next_entity.source)

\* the entity that replaces current when next_entity overlaps it
MergePair(current, next_entity) ==
    IF next_entity.confidence > current.confidence
    THEN PIIEntity(next_entity.entity_type, next_entity.text,
                   Min(current.start, next_entity.start),
                   Max(current.end, next_entity.end),
                   next_entity.confidence,
                   current.source \o <<"+">> \o next_entity.source)
    ELSE PIIEntity(current.entity_type, current.text,
                   Min(current.start, next_entity.start),
                   Max(current.end, next_entity.end),
                   current.confidence,
                   current.source \o <<"+">> \o next_entity.source)

\* the for loop over entities[1:], from index i with accumulator current
RECURSIVE MergeSweep(_, _, _, _)
MergeSweep(sorted, i, current, merged) ==
    IF i > Len(sorted)
    THEN Append(merged, current)
    ELSE IF Overlaps(current, sorted[i])
         THEN MergeSweep(sorted, i + 1, MergePair(current, sorted[i]), merged)
         ELSE MergeSweep(sorted, i + 1, sorted[i], Append(merged, current))

\* the same loop, keeping for each entity appended to merged the candidates
\* folded into it, each known by its index in the list handed in
RECURSIVE GroupSweep(_, _, _, _, _)
GroupSweep(sorted, i, current, group, groups) ==
    IF i > Len(sorted)
    THEN Append(groups, group)
    ELSE IF Overlaps(current, sorted[i])
         THEN GroupSweep(sorted, i + 1, MergePair(current, sorted[i]),
                         group \cup {sorted[i].index}, groups)
         ELSE GroupSweep(sorted, i + 1, sorted[i], {sorted[i].index},
                         Append(groups, group))

MergeGroups(ents) ==
    IF ents = <<>> THEN <<>>
    ELSE LET indexed == [i \in DOMAIN ents |->
                            [entity_type |-> ents[i].entity_type, text |-> ents[i].text,
                             start |-> ents[i].start, end |-> ents[i].end,
                             confidence |-> ents[i].confidence,
                             source |-> ents[i].source, index |-> i]]
             sorted == SortByStart(indexed)
         IN  GroupSweep(sorted, 2, sorted[1], {sorted[1].index}, <<>>)

\* mutant: without the guard for the empty list the flush appends an entity
MergeEntitiesFlushesEmpty(ents) ==
    IF ents = <<>> THEN <<PIIEntity(<<>>, <<>>, 0, 0, 0, <<>>)>>
    ELSE LET sorted == SortByStart(ents)
         IN  MergeSweep(sorted, 2, sorted[1], <<>>)

MergeEntities(ents) ==
    IF ents = <<>> THEN <<>>
    ELSE LET sorted == SortByStart(ents)
         IN  MergeSweep(sorted, 2, sorted[1], <<>>)

----------------------------------------------------------------------------
(* _merge_entities on the objects: a list holds references into the heap *)

\* mutant: the merged record is written into the accumulator's object
NewObjectInPlace(h, ref, record) ==
    [heap |-> [h EXCEPT ![ref] = record], ref |-> ref]

\* current = PIIEntity(...): a new object, to which the accumulator then refers
NewObject(h, ref, record) ==
    [heap |-> Append(h, record), ref |-> Len(h) + 1]

\* entities.sort(key=lambda x: x.start) on a list of references
SortRefsByStart(h, refs) ==
    LET keyed == [n \in DOMAIN refs |-> [start |-> h[refs[n]].start, ref |-> refs[n]]]
        sorted == SortByStart(keyed)
    IN  [n \in DOMAIN sorted |-> sorted[n].ref]

\* the for loop over entities[1:], the accumulator and merged holding references
RECURSIVE RefSweep(_, _, _, _, _)
RefSweep(h, sorted, i, current, merged) ==
    IF i > Len(sorted)
    THEN [heap |-> h, merged |-> Append(merged, current)]
    ELSE LET next_entity == sorted[i]
         IN  IF Overlaps(h[current], h[next_entity])
             THEN LET new == NewObject(h, current, MergePair(h[current], h[next_entity]))
                  IN  RefSweep(new.heap, sorted, i + 1, new.ref, merged)
             ELSE RefSweep(h, sorted, i + 1, next_entity, Append(merged, current))

MergeRefs(h, refs) ==
    IF refs = <<>> THEN [heap |-> h, merged |-> <<>>]
    ELSE LET sorted == SortRefsByStart(h, refs)
         IN  RefSweep(h, sorted, 2, sorted[1], <<>>)

----------------------------------------------------------------------------
(* anonymize_text, _adaptive_anonymization and _get_stats *)

EmailType == <<"e","m","a","i","l">>

EmailAddressType == <<"e","m","a","i","l","_","a","d","d","r","e","s","s">>

PhoneType == <<"p","h","o","n","e">>

PhoneNumberType == <<"p","h","o","n","e","_","n","u","m","b","e","r">>

PersonType == <<"p","e","r","s","o","n">>

PersonNameType == <<"p","e","r","s","o","n","_","n","a","m","e">>

CreditCardType == <<"c","r","e","d","i","t","_","c","a","r","d">>

SsnType == <<"s","s","n">>

\* what a policy yields when evaluating it raises IndexError (original[0] of '')
IndexError == <<"IndexError">>

\* f"[{entity_type.upper()}_{tail}]"
Bracketed(entity_type, tail) == <<"[">> \o Upper(entity_type) \o <<"_">> \o tail \o <<"]">>

\* the email format of the first tier
AdaptiveEmail(original) ==
    LET parts == SplitOn(original, "@")
    IN  IF Len(parts) = 2
        THEN SliceTo(parts[1], 2) \o <<"*","*","*","@">> \o parts[2]
        ELSE NoneValue

\* mutant: the last three characters are kept
AdaptivePhoneLastThree(original) ==
    <<"*","*","*","-","*","*","*","-">> \o SliceFrom(original, -3)

\* the phone format of the first tier
AdaptivePhone(original) ==
    <<"*","*","*","-","*","*","*","-">> \o SliceFrom(original, -4)

\* the person format of the first tier
AdaptivePerson(original) ==
    LET words == Split(original)
    IN  IF Len(words) > 1
        THEN <<words[1][1]>> \o <<"*","*","*"," ">>
             \o <<words[Len(words)][1]>> \o <<"*","*","*">>
        ELSE IF Len(original) = 0
             THEN IndexError
             ELSE <<original[1]>> \o <<"*","*","*">>

\* the credit card format of the first tier
AdaptiveCreditCard(original) ==
    <<"*","*","*","*","-","*","*","*","*","-","*","*","*","*","-">>
    \o SliceFrom(original, -4)

\* mutant: a confidence of exactly 0.9 takes the type-specific tier
AdaptiveAnonymizationFromNinety(entity) ==
    LET original == entity.text
        entity_type == entity.entity_type
        confidence == entity.confidence
    IN  IF confidence >= 90
        THEN IF entity_type \in {EmailType, EmailAddressType}
             THEN AdaptiveEmail(original)
             ELSE IF entity_type \in {PhoneType, PhoneNumberType}
             THEN AdaptivePhone(original)
             ELSE IF entity_type \in {PersonType, PersonNameType}
             THEN AdaptivePerson(original)
             ELSE IF entity_type = CreditCardType
             THEN AdaptiveCreditCard(original)
             ELSE NoneValue
        ELSE IF confidence > 70
        THEN Bracketed(entity_type, SliceTo(Md5HexDigest(original), 6))
        ELSE Bracketed(entity_type, <<"P","O","S","S","I","B","L","E">>)

AdaptiveAnonymization(entity) ==
    LET original == entity.text
        entity_type == entity.entity_type
        confidence == entity.confidence
    IN  IF confidence > 90
        THEN IF entity_type \in {EmailType, EmailAddressType}
             THEN AdaptiveEmail(original)
             ELSE IF entity_type \in {PhoneType, PhoneNumberType}
             THEN AdaptivePhone(original)
             ELSE IF entity_type \in {PersonType, PersonNameType}
             THEN AdaptivePerson(original)
             ELSE IF entity_type = CreditCardType
             THEN AdaptiveCreditCard(original)
             ELSE NoneValue
        ELSE IF confidence > 70
        THEN Bracketed(entity_type, SliceTo(Md5HexDigest(original), 6))
        ELSE Bracketed(entity_type, <<"P","O","S","S","I","B","L","E">>)

\* mutant: a text of exactly 4 characters keeps its first and last two
MaskFromFour(original) ==
    IF Len(original) >= 4
    THEN SliceTo(original, 2) \o Repeat("*", Len(original) - 4) \o SliceFrom(original, -2)
    ELSE Repeat("*", Len(original))

\* the mask strategy
Mask(original) ==
    IF Len(original) > 4
    THEN SliceTo(original, 2) \o Repeat("*", Len(original) - 4) \o SliceFrom(original, -2)
    ELSE Repeat("*", Len(original))

\* mutant: the hash strategy keeps 6 hexadecimal digits, as the adaptive tier does
AnonymizedShortHash(entity, strat) ==
    IF strat = "adaptive" THEN AdaptiveAnonymization(entity)
    ELSE IF strat = "hash"
    THEN Bracketed(entity.entity_type, SliceTo(Md5HexDigest(entity.text), 6))
    ELSE IF strat = "placeholder"
    THEN Bracketed(entity.entity_type, <<"R","E","D","A","C","T","E","D">>)
    ELSE IF strat = "mask" THEN Mask(entity.text)
    ELSE Bracketed(entity.entity_type, <<"R","E","D","A","C","T","E","D">>)

\* mutant: a strategy the chain does not know assigns no replacement
AnonymizedUnknownNone(entity, strat) ==
    IF strat = "adaptive" THEN AdaptiveAnonymization(entity)
    ELSE IF strat = "hash"
    THEN Bracketed(entity.entity_type, SliceTo(Md5HexDigest(entity.text), 8))
    ELSE IF strat = "placeholder"
    THEN Bracketed(entity.entity_type, <<"R","E","D","A","C","T","E","D">>)
    ELSE IF strat = "mask" THEN Mask(entity.text)
    ELSE NoneValue

\* the value the strategy chain of the loop body assigns to anonymized
Anonymized(entity, strat) ==
    IF strat = "adaptive" THEN AdaptiveAnonymization(entity)
    ELSE IF strat = "hash"
    THEN Bracketed(entity.entity_type, SliceTo(Md5HexDigest(entity.text), 8))
    ELSE IF strat = "placeholder"
    THEN Bracketed(entity.entity_type, <<"R","E","D","A","C","T","E","D">>)
    ELSE IF strat = "mask" THEN Mask(entity.text)
    ELSE Bracketed(entity.entity_type, <<"R","E","D","A","C","T","E","D">>)

\* mutant: the character at entity.end is replaced too
SubstituteInclusiveEnd(buffer, entity, anonymized) ==
    SliceTo(buffer, entity.start) \o anonymized \o SliceFrom(buffer, entity.end + 1)

\* anonymized_text[:entity.start] + anonymized + anonymized_text[entity.end:]
Substitute(buffer, entity, anonymized) ==
    SliceTo(buffer, entity.start) \o anonymized \o SliceFrom(buffer, entity.end)

\* sorted(entities, key=lambda x: x.start, reverse=True), as indices into entities:
\* stable, so entities of equal start keep their order
RECURSIVE InsertDescending(_, _, _)
InsertDescending(ents, order, i) ==
    IF order = <<>> THEN <<i>>
    ELSE IF ents[Head(order)].start >= ents[i].start
         THEN <<Head(order)>> \o InsertDescending(ents, Tail(order), i)
         ELSE <<i>> \o order

\* mutant: reverse=True is missing, the entities are taken in ascending order
SortedAscending(ents, n) == [i \in 1..n |-> i]

RECURSIVE SortedDescending(_, _)
SortedDescending(ents, n) ==
    IF n = 0 THEN <<>>
    ELSE InsertDescending(ents, SortedDescending(ents, n - 1), n)

\* a dict is a function on its keys
EmptyDict == <<>>

\* mutant: None is not stored
DictSetSkipsNone(d, key, value) ==
    IF value = NoneValue THEN d
    ELSE [x \in (DOMAIN d) \cup {key} |-> IF x = key THEN value ELSE d[x]]

DictSet(d, key, value) ==
    [x \in (DOMAIN d) \cup {key} |-> IF x = key THEN value ELSE d[x]]

\* d[key] += 1, with d[key] = 0 first when key is missing
DictIncrement(d, key) ==
    DictSet(d, key, (IF key \in DOMAIN d THEN d[key] ELSE 0) + 1)

\* mutant: a confidence of exactly 0.8 counts as high
RECURSIVE StatsLoopHighFromEighty(_, _, _)
StatsLoopHighFromEighty(ents, i, stats) ==
    IF i > Len(ents) THEN stats
    ELSE LET entity == ents[i]
             dist == stats.confidence_distribution
         IN  StatsLoopHighFromEighty(ents, i + 1,
                 [stats EXCEPT
                    !.entity_types = DictIncrement(stats.entity_types, entity.entity_type),
                    !.sources = DictIncrement(stats.sources, entity.source),
                    !.confidence_distribution =
                        IF entity.confidence >= 80
                        THEN [dist EXCEPT !.high = dist.high + 1]
                        ELSE IF entity.confidence > 60
                        THEN [dist EXCEPT !.medium = dist.medium + 1]
                        ELSE [dist EXCEPT !.low = dist.low + 1]])

RECURSIVE StatsLoop(_, _, _)
StatsLoop(ents, i, stats) ==
    IF i > Len(ents) THEN stats
    ELSE LET entity == ents[i]
             dist == stats.confidence_distribution
         IN  StatsLoop(ents, i + 1,
                 [stats EXCEPT
                    !.entity_types = DictIncrement(stats.entity_types, entity.entity_type),
                    !.sources = DictIncrement(stats.sources, entity.source),
                    !.confidence_distribution =
                        IF entity.confidence > 80
                        THEN [dist EXCEPT !.high = dist.high + 1]
                        ELSE IF entity.confidence > 60
                        THEN [dist EXCEPT !.medium = dist.medium + 1]
                        ELSE [dist EXCEPT !.low = dist.low + 1]])

GetStats(ents) ==
    StatsLoop(ents, 1,
        [total_entities |-> Len(ents),
         entity_types |-> EmptyDict,
         sources |-> EmptyDict,
         confidence_distribution |-> [high |-> 0, medium |-> 0, low |-> 0]])

----------------------------------------------------------------------------
(* the operations *)

NotYet == <<"not yet">>

\* detect_pii: the detectors' candidates are merged (the list is sorted in place)
DetectPii ==
    /\ UNCHANGED <<permuted, objectVars, serverVars>>
    /\ pc = "start"
    /\ all_entities' = SortByStart(all_entities)
    /\ entities' = MergeEntities(all_entities)
    /\ pc' = "detected"
    /\ UNCHANGED <<text, strategy, candidates, remerged, entities_sorted, k,
                   anonymized_text, mapping, result>>

\* _merge_entities called again on the list it returned
Remerge ==
    /\ UNCHANGED <<permuted, objectVars, serverVars>>
    /\ pc = "detected"
    /\ remerged' = MergeEntities(entities)
    /\ entities' = SortByStart(entities)
    /\ pc' = "remerged"
    /\ UNCHANGED <<text, strategy, candidates, all_entities, entities_sorted, k,
                   anonymized_text, mapping, result>>

\* anonymize_text after detect_pii returned: the buffer, the mapping, the order
AnonymizeSetup ==
    /\ UNCHANGED <<permuted, objectVars, serverVars>>
    /\ pc = "detected"
    /\ anonymized_text' = text
    /\ mapping' = EmptyDict
    /\ entities_sorted' = SortedDescending(entities, Len(entities))
    /\ k' = 1
    /\ pc' = "loop"
    /\ UNCHANGED <<text, strategy, candidates, all_entities, entities, remerged, result>>

\* one iteration of the loop over entities_sorted
AnonymizeStep ==
    /\ UNCHANGED <<permuted, objectVars, serverVars>>
    /\ pc = "loop"
    /\ k <= Len(entities_sorted)
    /\ LET entity == entities[entities_sorted[k]]
           original == entity.text
           anonymized == Anonymized(entity, strategy)
       IN  IF anonymized = IndexError
           THEN /\ pc' = "raised"
                /\ UNCHANGED <<entities, anonymized_text, mapping, k>>
           ELSE /\ entities' = [entities EXCEPT
                                   ![entities_sorted[k]].anonymized_value = anonymized]
                /\ anonymized_text' =
                       IF anonymized # NoneValue
                       THEN Substitute(anonymized_text, entity, anonymized)
                       ELSE anonymized_text
                /\ mapping' = DictSet(mapping, original, anonymized)
                /\ k' = k + 1
                /\ pc' = pc
    /\ UNCHANGED <<text, strategy, candidates, all_entities, remerged,
                   entities_sorted, result>>

\* the loop is over: the result dict is built and returned
AnonymizeReturn ==
    /\ UNCHANGED <<permuted, objectVars, serverVars>>
    /\ pc = "loop"
    /\ k > Len(entities_sorted)
    /\ result' = [original_text |-> text,
                  anonymized_text |-> anonymized_text,
                  entities |-> entities,
                  mapping |-> mapping,
                  stats |-> GetStats(entities)]
    /\ pc' = "done"
    /\ UNCHANGED <<text, strategy, candidates, all_entities, entities, remerged,
                   entities_sorted, k, anonymized_text, mapping>>

\* _merge_entities on the list of references: the list is sorted in place, the
\* objects it creates are added to the heap
MergeObjects ==
    /\ pc = "start"
    /\ LET out == MergeRefs(heap, ref_entities)
       IN  /\ heap' = out.heap
           /\ ref_merged' = out.merged
    /\ ref_entities' = SortRefsByStart(heap, ref_entities)
    /\ pc' = "merged_objects"
    /\ UNCHANGED <<text, strategy, candidates, all_entities, entities, remerged,
                   entities_sorted, k, anonymized_text, mapping, result,
                   permuted, serverVars>>

\* _merge_entities called on the same candidates handed in in another order
MergePermuted ==
    /\ pc = "detected"
    /\ \E order \in Permutations(DOMAIN candidates) :
           permuted' = MergeEntities([n \in DOMAIN candidates |-> candidates[order[n]]])
    /\ pc' = "permuted"
    /\ UNCHANGED <<text, strategy, candidates, all_entities, entities, remerged,
                   entities_sorted, k, anonymized_text, mapping, result,
                   objectVars, serverVars>>

Next == DetectPii \/ AnonymizeSetup \/ AnonymizeStep \/ AnonymizeReturn

NextMerge == DetectPii \/ Remerge

----------------------------------------------------------------------------
(* the inputs: what the detectors hand to detect_pii *)

\* longest candidate list drawn
MaxCands == 2

\* longest entity text drawn for the strategies
MaxLen == 5

RegexSource == <<"r","e","g","e","x">>

NerSource == <<"n","e","r">>

SpacySource == <<"s","p","a","c","y">>

\* every list of at most n elements of S
Lists(S, n) == UNION {[1..m -> S] : m \in 0..n}

\* every str of at most n characters of alphabet
Strings(alphabet, n) == Lists(alphabet, n)

ScenarioText == <<"C","o","n","t","a","c","t"," ","J","o","h","n"," ","a","t"," ","j","o","h","n","@","e","m","a","i","l",".","c","o","m">>

ScenarioEmail == <<"j","o","h","n","@","e","m","a","i","l",".","c","o","m">>

ScenarioName == <<"J","o","h","n">>

ScenarioPhone == <<"5","5","5","-","1","2","3","-","4","5","6","7">>

\* the state before detect_pii has run on text t with candidates cands
Start(t, cands, strat) ==
    /\ text = t
    /\ strategy = strat
    /\ candidates = cands
    /\ all_entities = cands
    /\ entities = NotYet
    /\ remerged = NotYet
    /\ entities_sorted = <<>>
    /\ k = 0
    /\ anonymized_text = NotYet
    /\ mapping = EmptyDict
    /\ result = NotYet
    /\ pc = "start"
    /\ permuted = NotYet
    /\ heap = cands
    /\ ref_entities = [r \in DOMAIN cands |-> r]
    /\ ref_merged = NotYet
    /\ is_loaded = FALSE
    /\ detector = NoneValue
    /\ outcome = NoneValue

\* Fusion: candidates with any offsets 0..len(text) of a short text, valid span or
\* not, each carrying the slice it names
MergeText == <<"J","o","n">>

MergeCandidates ==
    {PIIEntity(kind[1], Slice(MergeText, s, e), s, e, c, kind[2]) :
        kind \in {<<PersonNameType, RegexSource>>, <<PersonType, NerSource>>},
        s \in 0..Len(MergeText), e \in 0..Len(MergeText), c \in {60, 95}}

SameSpanScenario ==
    <<PIIEntity(PersonNameType, ScenarioName, 8, 12, 60, RegexSource),
      PIIEntity(PersonType, ScenarioName, 8, 12, 95, NerSource)>>

\* the candidates among them that satisfy start < end
ValidMergeCandidates == {c \in MergeCandidates : c.start < c.end}

\* candidates of one detector on a 3-character text, one of them with start > end
\* and one of zero width
InvertedSpanCandidates ==
    {PIIEntity(PersonType, Slice(MergeText, span[1], span[2]), span[1], span[2],
               95, NerSource) :
        span \in {<<0, 1>>, <<1, 3>>, <<2, 0>>, <<3, 3>>}}

InitMerge ==
    \/ \E cands \in Lists(MergeCandidates, MaxCands) : Start(MergeText, cands, "adaptive")
    \/ \E cands \in [1..(MaxCands + 1) -> ValidMergeCandidates] :
           Start(MergeText, cands, "adaptive")
    \/ Start(ScenarioText, SameSpanScenario, "adaptive")
    \/ \E cands \in [1..3 -> InvertedSpanCandidates] : Start(MergeText, cands, "adaptive")

SpecMerge == InitMerge /\ [][NextMerge]_vars

\* candidates of equal and of different confidence on spans of the 3-character
\* text that lie apart, touch and overlap
OrderCandidates ==
    {PIIEntity(kind[1], Slice(MergeText, span[1], span[2]), span[1], span[2],
               kind[2], kind[3]) :
        kind \in {<<PersonNameType, 95, RegexSource>>, <<PersonType, 95, NerSource>>,
                  <<PersonType, 60, NerSource>>},
        span \in {<<0, 1>>, <<0, 2>>, <<1, 3>>, <<2, 3>>}}

InitPermuted ==
    \E cands \in Lists(OrderCandidates, MaxCands + 1) : Start(MergeText, cands, "adaptive")

NextPermuted == DetectPii \/ MergePermuted

SpecPermuted == InitPermuted /\ [][NextPermuted]_vars

InitObjects ==
    \/ \E cands \in Lists(OrderCandidates, MaxCands + 1) :
           Start(MergeText, cands, "adaptive")
    \/ \E cands \in [1..3 -> InvertedSpanCandidates] : Start(MergeText, cands, "adaptive")

NextObjects == MergeObjects

SpecObjects == InitObjects /\ [][NextObjects]_vars

\* Rewriting: valid candidates over a short text in which "ab" occurs twice, each
\* carrying the slice it names; one kind the adaptive strategy leaves without a
\* replacement, one it gives the hash tier
AnonText == <<"a","b","c","a","b">>

AnonCandidates ==
    {c \in {PIIEntity(kind[1], Slice(AnonText, s, e), s, e, kind[2], kind[3]) :
               kind \in {<<SsnType, 95, RegexSource>>, <<EmailType, 80, SpacySource>>},
               s \in 0..Len(AnonText), e \in 0..Len(AnonText)} :
        c.start < c.end}

\* strategy names the chain does not know: the CLI's "partial", and a known name
\* in another case
UnknownStrategies == {"partial", "HASH"}

Strategies == {"adaptive", "hash", "placeholder", "mask"} \cup UnknownStrategies

PresidioSource == <<"p","r","e","s","i","d","i","o">>

\* candidates of three detectors on spans that stay apart, with a confidence on
\* and on either side of the statistics' thresholds
SeparateCandidates ==
    {PIIEntity(kind[1], Slice(AnonText, span[1], span[2]), span[1], span[2],
               kind[2], kind[3]) :
        kind \in {<<SsnType, 95, RegexSource>>, <<EmailType, 80, SpacySource>>,
                  <<PhoneType, 60, PresidioSource>>},
        span \in {<<0, 1>>, <<2, 3>>, <<4, 5>>}}

\* the scenario's candidate as the specification states it, and at the offsets
\* the e-mail address has in the scenario's text
EmailScenario == <<PIIEntity(EmailType, ScenarioEmail, 17, 31, 80, RegexSource)>>

EmailScenarioAtOffset == <<PIIEntity(EmailType, ScenarioEmail, 16, 30, 80, RegexSource)>>

Init ==
    \/ \E cands \in Lists(AnonCandidates, MaxCands), strat \in Strategies :
           Start(AnonText, cands, strat)
    \/ \E cands \in Lists(SeparateCandidates, MaxCands), strat \in Strategies :
           Start(AnonText, cands, strat)
    \/ \E cands \in {<<>>, EmailScenario, EmailScenarioAtOffset}, strat \in Strategies :
           Start(ScenarioText, cands, strat)
    \/ \E strat \in Strategies : Start(<<>>, <<>>, strat)

Spec == Init /\ [][Next]_vars

\* The strategies: one entity spanning a whole short text, of every type the
\* adaptive strategy tells apart and one it does not, on both sides of each tier
PolicyAlphabet == {"J", " ", "@"}

PolicyTypes ==
    {EmailType, EmailAddressType, PhoneType, PhoneNumberType, PersonType,
     PersonNameType, CreditCardType, SsnType}

PolicyInputs ==
    ({"adaptive"} \X PolicyTypes \X {60, 70, 80, 90, 95})
    \cup ((Strategies \ {"adaptive"}) \X {EmailType, SsnType} \X {80})

PhoneScenario == <<PIIEntity(PhoneNumberType, ScenarioPhone, 0, 12, 95, RegexSource)>>

InitPolicy ==
    \/ \E t \in Strings(PolicyAlphabet, MaxLen), in \in PolicyInputs :
           Start(t, <<PIIEntity(in[2], t, 0, Len(t), in[3], RegexSource)>>, in[1])
    \/ Start(ScenarioPhone, PhoneScenario, "adaptive")

SpecPolicy == InitPolicy /\ [][Next]_vars

----------------------------------------------------------------------------
(* the HTTP server's Model (src/pii_server.py) *)

\* the variables of detect_pii and anonymize_text, which the server leaves alone
detectorVars == <<strategy, candidates, all_entities, entities, remerged,
                  entities_sorted, k, anonymized_text, mapping, result,
                  permuted, objectVars>>

\* the detector object load constructs
SpacyNERPIIDetector == <<"SpacyNERPIIDetector">>

\* RuntimeError("Model not loaded")
ModelNotLoaded == <<"RuntimeError", "Model not loaded">>

\* self.detector read while the attribute was never set
NoDetectorAttribute == <<"AttributeError", "detector">>

\* load: print, then self.is_loaded = True
ModelLoad ==
    /\ pc = "idle"
    /\ is_loaded' = TRUE
    /\ outcome' = NoneValue
    /\ pc' = "constructing"
    /\ UNCHANGED <<text, detector, detectorVars>>

\* load: the detector is constructed and attached, load returns
ModelLoadAttach ==
    /\ pc = "constructing"
    /\ detector' = SpacyNERPIIDetector
    /\ outcome' = <<"returned">>
    /\ pc' = "idle"
    /\ UNCHANGED <<text, is_loaded, detectorVars>>

\* load: SpacyNERPIIDetector(model_path=...) raises (spacy.load of a path that
\* holds no model), and the exception leaves load
ModelLoadRaise ==
    /\ pc = "constructing"
    /\ outcome' = <<"OSError">>
    /\ pc' = "idle"
    /\ UNCHANGED <<text, is_loaded, detector, detectorVars>>

\* infer(input_text)
ModelInfer ==
    /\ pc = "idle"
    /\ \E input_text \in Strings(PolicyAlphabet, MaxLen) :
           /\ text' = input_text
           /\ outcome' = IF ~is_loaded THEN ModelNotLoaded
                         ELSE IF detector = NoneValue THEN NoDetectorAttribute
                         ELSE <<"result", input_text>>
    /\ UNCHANGED <<pc, is_loaded, detector, detectorVars>>

\* model = Model(): is_loaded is False and no detector attribute is set
InitServer ==
    /\ text = <<>>
    /\ strategy = "adaptive"
    /\ candidates = <<>>
    /\ all_entities = <<>>
    /\ entities = NotYet
    /\ remerged = NotYet
    /\ entities_sorted = <<>>
    /\ k = 0
    /\ anonymized_text = NotYet
    /\ mapping = EmptyDict
    /\ result = NotYet
    /\ permuted = NotYet
    /\ heap = <<>>
    /\ ref_entities = <<>>
    /\ ref_merged = NotYet
    /\ is_loaded = FALSE
    /\ detector = NoneValue
    /\ outcome = NoneValue
    /\ pc = "idle"

NextServer == ModelLoad \/ ModelLoadAttach \/ ModelLoadRaise \/ ModelInfer

SpecServer == InitServer /\ [][NextServer]_vars

----------------------------------------------------------------------------
(* Fusion: the claims about _merge_entities, checked under SpecMerge *)

\* _merge_entities has returned
Merged == pc \in {"detected", "remerged"}

\* every candidate handed in has start < end
AllValid == \A i \in DOMAIN candidates : candidates[i].start < candidates[i].end

\* the (start, end) spans of a list of entities
Spans(ents) == [i \in DOMAIN ents |-> <<ents[i].start, ents[i].end>>]

\* the range of entity e contains the span of candidate c
Contains(e, c) == e.start <= c.start /\ c.end <= e.end

\* C1: when every candidate has start < end, consecutive merged entities neither
\* overlap nor touch (a.end < b.start), and any two merged entities a, b with
\* a.start < b.start have a.end <= b.start.
C1_NoOverlapNoTouch ==
    (Merged /\ AllValid) =>
        /\ \A i \in 1..(Len(entities) - 1) : entities[i].end < entities[i + 1].start
        /\ \A i, j \in DOMAIN entities :
               entities[i].start < entities[j].start => entities[i].end <= entities[j].start

\* three valid candidates, two of them folded, leave two merged entities
C1_Witness ==
    /\ pc = "detected" /\ AllValid
    /\ Len(candidates) = 3 /\ Len(entities) = 2

\* C2: for every candidate list, valid spans or not, the merged list is sorted
\* ascending by start.
C2_SortedByStart ==
    Merged => \A i \in 1..(Len(entities) - 1) : entities[i].start <= entities[i + 1].start

\* candidates handed in out of order, one with start >= end, two entities out
C2_Witness ==
    /\ pc = "detected" /\ ~AllValid
    /\ Len(candidates) = 2 /\ candidates[1].start > candidates[2].start
    /\ Len(entities) = 2

\* C3: when every candidate has start < end, every candidate's span lies in the
\* range of exactly one merged entity and every merged entity's range holds at
\* least one candidate.
C3_Partition ==
    (Merged /\ AllValid) =>
        /\ \A i \in DOMAIN candidates :
               Cardinality({j \in DOMAIN entities : Contains(entities[j], candidates[i])}) = 1
        /\ \A j \in DOMAIN entities :
               \E i \in DOMAIN candidates : Contains(entities[j], candidates[i])

\* a candidate strictly inside an earlier, longer one has been folded into it
C3_Witness ==
    /\ pc = "detected" /\ AllValid /\ Len(candidates) = 3 /\ Len(entities) = 1
    /\ \E i, j \in DOMAIN candidates :
           /\ candidates[i].start < candidates[j].start
           /\ candidates[j].end < candidates[i].end

\* C4: when every candidate has start < end, merging the merged list again gives
\* the same sequence of (start, end) spans: nothing more is merged.
C4_MergeIdempotent ==
    (pc = "remerged" /\ AllValid) => Spans(remerged) = Spans(entities)

\* a first merge that folded candidates and left two entities, merged again
C4_Witness ==
    /\ pc = "remerged" /\ AllValid
    /\ Len(candidates) = 3 /\ Len(entities) = 2 /\ Len(remerged) = 2

\* C9: candidates X then Y on the same span, Y of strictly higher confidence, merge
\* into one entity with that span, Y's entity_type and confidence, and source
\* X.source + "+" + Y.source; regex 0.6 person_name and ner 0.95 person on [8,12)
\* give person, 0.95, "regex+ner".
C9_HigherConfidenceWins ==
    /\ (Merged /\ Len(candidates) = 2
          /\ candidates[1].start = candidates[2].start
          /\ candidates[1].end = candidates[2].end
          /\ candidates[1].start <= candidates[1].end
          /\ candidates[2].confidence > candidates[1].confidence)
       => /\ Len(entities) = 1
          /\ entities[1].start = candidates[1].start
          /\ entities[1].end = candidates[1].end
          /\ entities[1].entity_type = candidates[2].entity_type
          /\ entities[1].confidence = candidates[2].confidence
          /\ entities[1].source = candidates[1].source \o <<"+">> \o candidates[2].source
    /\ (Merged /\ candidates = SameSpanScenario)
       => entities = <<[entity_type |-> PersonType, text |-> ScenarioName,
                        start |-> 8, end |-> 12, confidence |-> 95,
                        source |-> <<"r","e","g","e","x","+","n","e","r">>,
                        anonymized_value |-> NoneValue]>>

\* the scenario's two candidates have been merged
C9_Witness == pc = "detected" /\ candidates = SameSpanScenario /\ Len(entities) = 1

----------------------------------------------------------------------------
(* Rewriting: the claims about anonymize_text, checked under Spec *)

\* the entities are pairwise non-overlapping, each with 0 <= start < end <= len(text)
NonOverlappingInBounds ==
    /\ \A i \in DOMAIN entities :
           0 <= entities[i].start /\ entities[i].start < entities[i].end
           /\ entities[i].end <= Len(text)
    /\ \A i, j \in DOMAIN entities :
           i # j => (entities[i].end <= entities[j].start
                     \/ entities[j].end <= entities[i].start)

\* the entities whose span was substituted
Substituted == {i \in DOMAIN entities : entities[i].anonymized_value # NoneValue}

RECURSIVE SumOver(_, _)
SumOver(S, f) ==
    IF S = {} THEN 0
    ELSE LET x == CHOOSE y \in S : TRUE IN f[x] + SumOver(S \ {x}, f)

\* the original text with every substituted range, taken left to right, replaced
\* by its entity's replacement (entities are in ascending start order)
RECURSIVE Spliced(_, _)
Spliced(i, from) ==
    IF i > Len(entities) THEN SubSeq(text, from + 1, Len(text))
    ELSE SubSeq(text, from + 1, entities[i].start)
         \o (IF i \in Substituted
             THEN entities[i].anonymized_value
             ELSE SubSeq(text, entities[i].start + 1, entities[i].end))
         \o Spliced(i + 1, entities[i].end)

\* C5: once every substitution is applied to pairwise non-overlapping in-bounds
\* entities, len(anonymized_text) = len(original_text) - sum of (end - start) over
\* the substituted entities + sum of the lengths of their replacements.
C5_LengthAfterAnonymize ==
    (pc = "done" /\ NonOverlappingInBounds) =>
        Len(result.anonymized_text) =
            Len(text)
            - SumOver(Substituted, [i \in Substituted |-> entities[i].end - entities[i].start])
            + SumOver(Substituted, [i \in Substituted |-> Len(entities[i].anonymized_value)])

\* two entities substituted by replacements longer than their spans
C5_Witness ==
    /\ pc = "done" /\ NonOverlappingInBounds
    /\ Len(entities) = 2 /\ Substituted = {1, 2}
    /\ Len(result.anonymized_text) > Len(text)

\* C6: for pairwise non-overlapping in-bounds entities e1 < ... < en the anonymized
\* text is original[0:e1.start] + r1 + original[e1.end:e2.start] + ... + rn +
\* original[en.end:]; an entity without a replacement keeps its original range.
C6_TextOutsideEntitiesKept ==
    (pc = "done" /\ NonOverlappingInBounds) => result.anonymized_text = Spliced(1, 0)

\* two substituted entities with text before, between and after them
C6_Witness ==
    /\ pc = "done" /\ NonOverlappingInBounds
    /\ Len(entities) = 2 /\ Substituted = {1, 2}
    /\ entities[1].start > 0 /\ entities[2].start > entities[1].end
    /\ entities[2].end < Len(text)
    /\ Len(entities[1].anonymized_value) # entities[1].end - entities[1].start

\* "[EMAIL_" + the first 8 hexadecimal digits of md5("john@email.com") + "]"
EmailScenarioValue ==
    <<"[","E","M","A","I","L","_">> \o SubSeq(Md5HexDigest(ScenarioEmail), 1, 8) \o <<"]">>

\* "Contact John at "
EmailScenarioPrefix == SubSeq(ScenarioText, 1, 16)

\* C8 as stated: with the candidate at start=17, end=31 the hash strategy returns
\* "Contact John at " followed by the anonymized value and nothing else.
C8_AsStated ==
    (pc = "done" /\ text = ScenarioText /\ candidates = EmailScenario
        /\ strategy = "hash")
    => /\ result.entities[1].anonymized_value = EmailScenarioValue
       /\ result.anonymized_text = EmailScenarioPrefix \o EmailScenarioValue

\* C8: the e-mail address occupies [16, 30) of the scenario's text; with the
\* candidate at start=16, end=30 the hash strategy gives the entity the value
\* "[EMAIL_" + 8 hex digits of md5 + "]" and returns "Contact John at " followed
\* by exactly that value.  At start=17, end=31 the value is the same and the
\* returned text keeps the "j" of offset 16 in front of it.
C8_EmailScenario ==
    /\ (pc = "done" /\ text = ScenarioText /\ candidates = EmailScenarioAtOffset
          /\ strategy = "hash")
       => /\ Len(result.entities) = 1
          /\ result.entities[1].anonymized_value = EmailScenarioValue
          /\ result.anonymized_text = EmailScenarioPrefix \o EmailScenarioValue
    /\ (pc = "done" /\ text = ScenarioText /\ candidates = EmailScenario
          /\ strategy = "hash")
       => /\ result.entities[1].anonymized_value = EmailScenarioValue
          /\ result.anonymized_text = EmailScenarioPrefix \o <<"j">> \o EmailScenarioValue

\* the scenario at the address's offsets has been anonymized with hash
C8_Witness ==
    /\ pc = "done" /\ text = ScenarioText /\ candidates = EmailScenarioAtOffset
    /\ strategy = "hash" /\ Len(result.anonymized_text) = 32

----------------------------------------------------------------------------
(* The strategies: the claims about mask and adaptive, checked under SpecPolicy *)

\* the entity of a one-entity run, once the loop has given it its value
Processed(strat) ==
    pc = "done" /\ strategy = strat /\ Len(result.entities) = 1

\* C7: under mask the replacement has the length of the entity's text: a text of
\* more than 4 characters keeps its first 2 and last 2 characters around len-4
\* '*', a text of 0..4 characters becomes len '*'.
C7_MaskKeepsLength ==
    Processed("mask") =>
        LET original == result.entities[1].text
            value == result.entities[1].anonymized_value
            n == Len(original)
        IN  /\ Len(value) = n
            /\ n > 4 => \A i \in 1..n :
                            value[i] = IF i <= 2 \/ i > n - 2 THEN original[i] ELSE "*"
            /\ n <= 4 => \A i \in 1..n : value[i] = "*"

\* a text of 5 characters, not all alike, has been masked
C7_Witness ==
    /\ Processed("mask")
    /\ Len(result.entities[1].text) = 5
    /\ result.entities[1].text[1] # result.entities[1].text[2]
    /\ result.anonymized_text = result.entities[1].anonymized_value

\* the positions at which a whitespace-separated word of s begins
WordStarts(s) == {p \in 1..Len(s) : s[p] # " " /\ (p = 1 \/ s[p - 1] = " ")}

\* the last (up to) 4 characters of s
LastFour(s) == SubSeq(s, Max(1, Len(s) - 3), Len(s))

SetMin(S) == CHOOSE x \in S : \A y \in S : x <= y

SetMax(S) == CHOOSE x \in S : \A y \in S : x >= y

\* C10: under adaptive with confidence > 0.9, phone and phone_number give
\* "***-***-" + last 4 characters ("555-123-4567" gives "***-***-4567"),
\* credit_card gives "****-****-****-" + last 4 characters, person and
\* person_name give first letter of the first word + "*** " + first letter of the
\* last word + "***" for more than one word, else first character + "***".
C10_AdaptiveFormats ==
    (Processed("adaptive") /\ result.entities[1].confidence > 90) =>
        LET original == result.entities[1].text
            type == result.entities[1].entity_type
            value == result.entities[1].anonymized_value
            starts == WordStarts(original)
        IN  /\ type \in {PhoneType, PhoneNumberType} =>
                   value = <<"*","*","*","-","*","*","*","-">> \o LastFour(original)
            /\ type = CreditCardType =>
                   value = <<"*","*","*","*","-","*","*","*","*","-","*","*","*","*","-">>
                           \o LastFour(original)
            /\ (type \in {PersonType, PersonNameType} /\ Cardinality(starts) > 1) =>
                   value = <<original[SetMin(starts)], "*","*","*"," ",
                             original[SetMax(starts)], "*","*","*">>
            /\ (type \in {PersonType, PersonNameType} /\ Cardinality(starts) <= 1) =>
                   value = <<original[1], "*","*","*">>
            /\ candidates = PhoneScenario =>
                   value = <<"*","*","*","-","*","*","*","-","4","5","6","7">>

\* the phone scenario has been anonymized
C10_Witness ==
    /\ Processed("adaptive") /\ candidates = PhoneScenario
    /\ result.anonymized_text = result.entities[1].anonymized_value

\* TYPE_UPPER, written out for the entity types drawn
TypeUpper(entity_type) ==
    CASE entity_type = EmailType -> <<"E","M","A","I","L">>
      [] entity_type = EmailAddressType -> <<"E","M","A","I","L","_","A","D","D","R","E","S","S">>
      [] entity_type = PhoneType -> <<"P","H","O","N","E">>
      [] entity_type = PhoneNumberType -> <<"P","H","O","N","E","_","N","U","M","B","E","R">>
      [] entity_type = PersonType -> <<"P","E","R","S","O","N">>
      [] entity_type = PersonNameType -> <<"P","E","R","S","O","N","_","N","A","M","E">>
      [] entity_type = CreditCardType -> <<"C","R","E","D","I","T","_","C","A","R","D">>
      [] entity_type = SsnType -> <<"S","S","N">>

\* "[" + TYPE_UPPER + "_" + tail + "]"
Tagged(entity_type, tail) == <<"[">> \o TypeUpper(entity_type) \o <<"_">> \o tail \o <<"]">>

\* the parts of s before and after its first '@' (all of s and '' without one)
AtSigns(s) == {p \in 1..Len(s) : s[p] = "@"}

LocalPart(s) == IF AtSigns(s) = {} THEN s ELSE SubSeq(s, 1, SetMin(AtSigns(s)) - 1)

DomainPart(s) == IF AtSigns(s) = {} THEN <<>> ELSE SubSeq(s, SetMin(AtSigns(s)) + 1, Len(s))

\* C11 as stated: under adaptive with confidence > 0.9 every email or
\* email_address entity, whatever its text, is replaced by the first two
\* characters of the local part + "***@" + the domain.
C11_EveryEmailReplaced ==
    (Processed("adaptive") /\ result.entities[1].confidence > 90
        /\ result.entities[1].entity_type \in {EmailType, EmailAddressType})
    => LET original == result.entities[1].text
       IN  result.entities[1].anonymized_value =
               SubSeq(LocalPart(original), 1, Min(2, Len(LocalPart(original))))
               \o <<"*","*","*","@">> \o DomainPart(original)

\* C12 as stated: under adaptive an entity with confidence > 0.9 of a type outside
\* email, email_address, phone, phone_number, person, person_name, credit_card
\* gets "[" + TYPE_UPPER + "_" + 6 hex digits of md5(text) + "]", and its span is
\* substituted in the text.
C12_UnknownTypeHashTier ==
    (Processed("adaptive") /\ result.entities[1].confidence > 90
        /\ result.entities[1].entity_type = SsnType)
    => /\ result.entities[1].anonymized_value =
              Tagged(SsnType, SubSeq(Md5HexDigest(result.entities[1].text), 1, 6))
       /\ result.anonymized_text = result.entities[1].anonymized_value

\* C13: under adaptive 0.7 < confidence <= 0.9 (0.9 included) gives "[" +
\* TYPE_UPPER + "_" + 6 hex digits of md5(text) + "]", confidence <= 0.7 (0.7
\* included) gives "[" + TYPE_UPPER + "_POSSIBLE]", whatever the entity type: the
\* type-specific formats are used only above 0.9.
C13_AdaptiveTiers ==
    Processed("adaptive") =>
        LET entity == result.entities[1]
        IN  /\ (entity.confidence > 70 /\ entity.confidence <= 90) =>
                   entity.anonymized_value =
                       Tagged(entity.entity_type, SubSeq(Md5HexDigest(entity.text), 1, 6))
            /\ entity.confidence <= 70 =>
                   entity.anonymized_value =
                       Tagged(entity.entity_type, <<"P","O","S","S","I","B","L","E">>)

\* a phone entity of confidence exactly 0.9 has been given the hash tier, and the
\* text is that value
C13_Witness ==
    /\ Processed("adaptive")
    /\ result.entities[1].confidence = 90
    /\ result.entities[1].entity_type = PhoneType
    /\ Len(result.entities[1].text) = 5
    /\ result.anonymized_text = result.entities[1].anonymized_value
    /\ Len(result.anonymized_text) = 14

\* C14: empty input is a no-op and not an error: merging the empty candidate list
\* gives the empty list, and anonymize of any text without entities, under any
\* policy, raises nothing and returns anonymized_text = original_text = the text,
\* an empty entity list and an empty mapping.
C14_EmptyInputNoOp ==
    candidates = <<>> =>
        /\ pc # "raised"
        /\ pc # "start" => entities = <<>>
        /\ pc = "done" =>
               /\ result.original_text = text
               /\ result.anonymized_text = text
               /\ result.entities = <<>>
               /\ result.mapping = EmptyDict

\* anonymize has returned for the scenario text without candidates under a policy
\* name the chain does not know
C14_Witness ==
    /\ pc = "done" /\ candidates = <<>> /\ text = ScenarioText
    /\ strategy = "partial"
    /\ result.anonymized_text = ScenarioText

\* C15: for a policy name that is none of adaptive, hash, placeholder, mask
\* anonymize does not fail and gives every entity "[" + TYPE_UPPER + "_REDACTED]",
\* as policy placeholder does: both return the text with these values spliced in.
C15_UnknownPolicyIsPlaceholder ==
    strategy \in UnknownStrategies \cup {"placeholder"} =>
        /\ pc # "raised"
        /\ pc = "done" =>
               /\ \A i \in DOMAIN result.entities :
                      result.entities[i].anonymized_value =
                          Tagged(result.entities[i].entity_type,
                                 <<"R","E","D","A","C","T","E","D">>)
               /\ NonOverlappingInBounds => result.anonymized_text = Spliced(1, 0)

\* policy "partial" has replaced an ssn and an email entity by their placeholders
C15_Witness ==
    /\ pc = "done" /\ strategy = "partial" /\ Len(result.entities) = 2
    /\ result.entities[1].entity_type = SsnType
    /\ result.entities[2].entity_type = EmailType
    /\ result.entities[1].anonymized_value = <<"[","S","S","N","_","R","E","D","A","C","T","E","D","]">>
    /\ result.anonymized_text =
           result.entities[1].anonymized_value \o <<"c">> \o result.entities[2].anonymized_value

\* start >= end, start < 0 or end > len(text)
InvalidSpan(entity) ==
    entity.start >= entity.end \/ entity.start < 0 \/ entity.end > Len(text)

\* C16 as stated: a candidate with an invalid span is rejected or skipped and
\* reported as a validation failure; no substitution is ever applied to the text
\* buffer at such a span: its entity never gets a replacement and, when it is the
\* only one, the buffer stays the text.
C16_InvalidSpanNeverSubstituted ==
    /\ \A i \in DOMAIN entities :
           (pc # "start" /\ InvalidSpan(entities[i])) =>
               entities[i].anonymized_value = NoneValue
    /\ (pc \in {"loop", "done"} /\ Len(candidates) = 1 /\ InvalidSpan(candidates[1])) =>
           anonymized_text = text

\* the entity of smallest start among those whose text is t
FirstWithText(ents, t) ==
    CHOOSE j \in DOMAIN ents :
        /\ ents[j].text = t
        /\ \A i \in DOMAIN ents : ents[i].text = t => ents[j].start <= ents[i].start

\* C17: the returned mapping has exactly one entry per text value of the entities;
\* its value is the anonymized value of the entity of that text processed last,
\* the one of smallest start; so it has no more entries than there are entities.
C17_MappingLastWriteWins ==
    pc = "done" =>
        /\ DOMAIN result.mapping = {result.entities[i].text : i \in DOMAIN result.entities}
        /\ \A t \in DOMAIN result.mapping :
               result.mapping[t] =
                   result.entities[FirstWithText(result.entities, t)].anonymized_value
        /\ Cardinality(DOMAIN result.mapping) <= Len(result.entities)

\* two entities with the same text and different replacements: one entry, holding
\* the replacement of the first
C17_Witness ==
    /\ pc = "done" /\ Len(result.entities) = 2
    /\ result.entities[1].text = result.entities[2].text
    /\ result.entities[1].start < result.entities[2].start
    /\ result.entities[1].anonymized_value # result.entities[2].anonymized_value
    /\ Cardinality(DOMAIN result.mapping) = 1
    /\ result.mapping[result.entities[1].text] = result.entities[1].anonymized_value

\* the loop body has just run for an entity that the policy gave no replacement
NoReplacementStep ==
    /\ pc = "loop" /\ k' = k + 1
    /\ entities'[entities_sorted[k]].anonymized_value = NoneValue

\* C18: when a policy yields no replacement for an entity, the step leaves the
\* text buffer unchanged, keeps the entity record with anonymized_value None,
\* records mapping[its text] = None and touches no other record or entry; the
\* returned text then has the other entities' replacements spliced in and the
\* original characters at that entity's span.
C18_NoReplacementKeepsText ==
    /\ [][NoReplacementStep =>
            LET i == entities_sorted[k]
            IN  /\ anonymized_text' = anonymized_text
                /\ DOMAIN entities' = DOMAIN entities
                /\ \A j \in DOMAIN entities : j # i => entities'[j] = entities[j]
                /\ entities'[i] = [entities[i] EXCEPT !.anonymized_value = NoneValue]
                /\ DOMAIN mapping' = DOMAIN mapping \cup {entities[i].text}
                /\ mapping'[entities[i].text] = NoneValue
                /\ \A t \in DOMAIN mapping :
                       t # entities[i].text => mapping'[t] = mapping[t]]_vars
    /\ [](pc = "done" =>
            /\ \A i \in DOMAIN entities :
                   /\ result.entities[i] = entities[i]
                   /\ entities[i].text \in DOMAIN result.mapping
            /\ NonOverlappingInBounds => result.anonymized_text = Spliced(1, 0))

\* adaptive has returned for an ssn entity of confidence 0.95 left without a
\* replacement and an email entity of confidence 0.8 replaced after it
C18_Witness ==
    /\ pc = "done" /\ strategy = "adaptive" /\ Len(result.entities) = 2
    /\ Substituted = {2}
    /\ result.entities[1].entity_type = SsnType
    /\ result.entities[1].text # result.entities[2].text
    /\ result.mapping[result.entities[1].text] = NoneValue
    /\ result.mapping[result.entities[2].text] = result.entities[2].anonymized_value
    /\ result.anonymized_text =
           SubSeq(text, 1, result.entities[2].start) \o result.entities[2].anonymized_value

\* how many of ents satisfy the test
CountOf(ents, test(_)) == Cardinality({i \in DOMAIN ents : test(ents[i])})

Before(i, h) ==
    \/ candidates[i].start < candidates[h].start
    \/ candidates[i].start = candidates[h].start /\ i < h

\* of the candidates in group, the earliest among those of maximum confidence
Winner(group) ==
    CHOOSE w \in group :
        \A i \in group \ {w} :
            \/ candidates[i].confidence < candidates[w].confidence
            \/ candidates[i].confidence = candidates[w].confidence /\ Before(w, i)

\* C20: each merged entity has the entity_type, text and confidence of one
\* candidate of its group: the earliest, in stable start-sorted order, among the
\* group's candidates of maximum confidence. The text is that candidate's text,
\* whatever the union range is.
C20_WinnerIsEarliestMaximum ==
    Merged =>
        LET groups == MergeGroups(candidates)
        IN  /\ Len(groups) = Len(entities)
            /\ \A j \in DOMAIN entities :
                   LET winner == candidates[Winner(groups[j])]
                   IN  /\ entities[j].entity_type = winner.entity_type
                       /\ entities[j].text = winner.text
                       /\ entities[j].confidence = winner.confidence

\* three candidates in one group, two of them of maximum confidence and of
\* different types: the one of smaller start, listed later, is the winner, and its
\* text is shorter than the union range
C20_Witness ==
    /\ pc = "detected" /\ AllValid /\ Len(candidates) = 3 /\ Len(entities) = 1
    /\ \E i, j \in DOMAIN candidates :
           /\ i < j
           /\ candidates[j].start < candidates[i].start
           /\ candidates[i].confidence = 95 /\ candidates[j].confidence = 95
           /\ candidates[i].entity_type # candidates[j].entity_type
           /\ \E h \in DOMAIN candidates : candidates[h].confidence = 60
           /\ entities[1].entity_type = candidates[j].entity_type
           /\ entities[1].text = candidates[j].text
    /\ Len(entities[1].text) < entities[1].end - entities[1].start

\* every other candidate comes before candidate w in stable start-sorted order
LastInOrder(w) == \A i \in DOMAIN candidates \ {w} : Before(i, w)

\* the sources of the candidates of group, "+"-joined in stable start-sorted order
RECURSIVE JoinedSources(_)
JoinedSources(group) ==
    LET first == CHOOSE i \in group : \A h \in group \ {i} : Before(i, h)
    IN  IF group = {first} THEN candidates[first].source
        ELSE candidates[first].source \o <<"+">> \o JoinedSources(group \ {first})

\* C21: the source of every merged entity is the "+"-joined concatenation of the
\* sources of all candidates folded into it, in stable start-sorted order
\* (candidates of equal start in input order), whichever candidate won.
C21_SourceJoinedInOrder ==
    pc = "detected" =>
        LET groups == MergeGroups(candidates)
        IN  \A j \in DOMAIN entities : entities[j].source = JoinedSources(groups[j])

\* three candidates handed in out of start order are folded into one entity, the
\* last of them in sorted order being the winner
C21_Witness ==
    /\ pc = "detected" /\ Len(candidates) = 3 /\ Len(entities) = 1
    /\ candidates[1].start > candidates[2].start
    /\ \E w \in DOMAIN candidates :
           /\ LastInOrder(w) /\ candidates[w].confidence = 95
           /\ \A i \in DOMAIN candidates \ {w} : candidates[i].confidence = 60
           /\ entities[1].entity_type = candidates[w].entity_type
    /\ \E i, h \in DOMAIN candidates : candidates[i].source # candidates[h].source
    /\ Len(entities[1].source) >= 13

\* C22: the span of every merged entity is the union range of the candidates folded
\* into it: start is the minimum of their starts and end the maximum of their ends,
\* whichever candidate won on confidence.
C22_SpanIsUnionRange ==
    pc = "detected" =>
        LET groups == MergeGroups(candidates)
        IN  \A j \in DOMAIN entities :
                /\ entities[j].start = SetMin({candidates[i].start : i \in groups[j]})
                /\ entities[j].end = SetMax({candidates[i].end : i \in groups[j]})

\* three candidates in one entity whose end is not the end of the last candidate
\* folded in, and whose winner's span is shorter than the union range
C22_Witness ==
    /\ pc = "detected" /\ Len(candidates) = 3 /\ Len(entities) = 1
    /\ \E i \in DOMAIN candidates : LastInOrder(i) /\ candidates[i].end < entities[1].end
    /\ \E w \in MergeGroups(candidates)[1] :
           /\ entities[1].text = candidates[w].text
           /\ entities[1].confidence = candidates[w].confidence
           /\ candidates[w].end - candidates[w].start < entities[1].end - entities[1].start

\* spans a and b overlap or touch: they share a character or a boundary
OverlapOrTouch(a, b) == a.start <= b.end /\ b.start <= a.end

\* candidate i neither overlaps nor touches any other candidate of the input
Isolated(i) ==
    \A h \in DOMAIN candidates \ {i} : ~OverlapOrTouch(candidates[i], candidates[h])

\* C23 as stated: a candidate that neither overlaps nor touches any other candidate
\* of the input is in the merge output unchanged in every field, with its own,
\* un-composited source.
C23_IsolatedCandidateKept ==
    Merged =>
        \A i \in DOMAIN candidates :
            Isolated(i) => \E j \in DOMAIN entities : entities[j] = candidates[i]

\* C25 as stated: for every candidate list, also with candidates where
\* start >= end, any two output entities a, b with a.start < b.start satisfy
\* a.end <= b.start.
C25_NonOverlapWithoutValidation ==
    Merged =>
        \A i, j \in DOMAIN entities :
            entities[i].start < entities[j].start => entities[i].end <= entities[j].start

\* every candidate has 0 <= start < end <= len(text) and text = original[start:end]
CandidatesInBounds ==
    \A i \in DOMAIN candidates :
        /\ 0 <= candidates[i].start /\ candidates[i].start < candidates[i].end
        /\ candidates[i].end <= Len(text)
        /\ candidates[i].text = SubSeq(text, candidates[i].start + 1, candidates[i].end)

\* C26 as stated: under the mask policy the whole text keeps its length: for
\* candidates with 0 <= start < end <= len(text) and text = original[start:end],
\* anonymizing the output of merge with policy mask gives len(anonymized_text) =
\* len(original_text), also when overlapping candidates were merged.
C26_MaskKeepsTextLength ==
    (pc = "done" /\ strategy = "mask" /\ CandidatesInBounds) =>
        Len(result.anonymized_text) = Len(result.original_text)

\* C27: the loop takes the entities strictly in descending start order, and at
\* every step over pairwise non-overlapping in-bounds entities the buffer before
\* the end of the entity about to be substituted is still the original text, so
\* buffer[e.start:e.end] = original[e.start:e.end] when e is replaced.
C27_DescendingKeepsPrefix ==
    (pc = "loop" /\ NonOverlappingInBounds) =>
        /\ \A a, b \in DOMAIN entities_sorted :
               a < b => entities[entities_sorted[a]].start > entities[entities_sorted[b]].start
        /\ k <= Len(entities_sorted) =>
               LET e == entities[entities_sorted[k]]
               IN  /\ SubSeq(anonymized_text, 1, e.end) = SubSeq(text, 1, e.end)
                   /\ SubSeq(anonymized_text, e.start + 1, e.end)
                          = SubSeq(text, e.start + 1, e.end)

\* the second entity of two is about to be replaced after the first replacement
\* changed the length of the buffer
C27_Witness ==
    /\ pc = "loop" /\ NonOverlappingInBounds
    /\ Len(entities) = 2 /\ k = 2
    /\ entities[2].anonymized_value # NoneValue
    /\ Len(anonymized_text) # Len(text)
    /\ entities[1].start > 0

\* C29: the result of anonymize_text lists the entities in ascending start order
\* (the order of the merge, not the descending order of processing), one record
\* per merged entity, each with the anonymized value the policy computed for it,
\* and original_text is the input text unchanged.
C29_ResultEntitiesInMergeOrder ==
    pc = "done" =>
        LET merge == MergeEntities(candidates)
        IN  /\ result.original_text = text
            /\ Len(result.entities) = Len(MergeGroups(candidates))
            /\ \A i, j \in DOMAIN result.entities :
                   i < j => result.entities[i].start <= result.entities[j].start
            /\ result.entities =
                   [i \in DOMAIN merge |->
                       [merge[i] EXCEPT !.anonymized_value = Anonymized(merge[i], strategy)]]

\* two candidates handed in out of order, processed from the right, are returned
\* in ascending start order, each with its own value
C29_Witness ==
    /\ pc = "done" /\ Len(candidates) = 2 /\ Len(result.entities) = 2
    /\ candidates[1].start > candidates[2].start
    /\ entities_sorted = <<2, 1>>
    /\ result.entities[1].start < result.entities[2].start
    /\ result.entities[1].text = candidates[2].text
    /\ result.entities[1].anonymized_value # result.entities[2].anonymized_value
    /\ result.entities[2].anonymized_value # NoneValue

----------------------------------------------------------------------------
(* Fusion of the same candidates in another order, checked under SpecPermuted *)

\* the (start, end, confidence) of each entity of a list
SpansAndConfidences(ents) ==
    [i \in DOMAIN ents |-> <<ents[i].start, ents[i].end, ents[i].confidence>>]

\* C28: for candidates that each have start < end, the merge of every permutation
\* of the list returns the same sequence of (start, end) spans with the same
\* confidence per span; only entity_type, text and source may differ.
C28_SpansIndependentOfOrder ==
    (pc = "permuted" /\ AllValid) =>
        SpansAndConfidences(permuted) = SpansAndConfidences(entities)

\* three candidates, two of equal confidence and different type on the same start,
\* merged in two orders: the same spans and confidences, another entity_type
C28_Witness ==
    /\ pc = "permuted" /\ AllValid /\ Len(candidates) = 3 /\ Len(entities) = 1
    /\ \E i \in DOMAIN candidates : candidates[i].confidence < entities[1].confidence
    /\ SpansAndConfidences(permuted) = SpansAndConfidences(entities)
    /\ permuted[1].entity_type # entities[1].entity_type
    /\ permuted[1].text # entities[1].text
    /\ permuted[1].source # entities[1].source

----------------------------------------------------------------------------
(* Fusion on the objects: the claim checked under SpecObjects *)

\* C24: _merge_entities never mutates an input candidate in place: after it
\* returns, every candidate object handed in has the entity_type, text, start, end,
\* confidence and source it had before, and every entity that combines two or
\* more candidates is a newly created object.
C24_CandidatesNotMutated ==
    pc = "merged_objects" =>
        /\ \A r \in DOMAIN candidates :
               /\ heap[r].entity_type = candidates[r].entity_type
               /\ heap[r].text = candidates[r].text
               /\ heap[r].start = candidates[r].start
               /\ heap[r].end = candidates[r].end
               /\ heap[r].confidence = candidates[r].confidence
               /\ heap[r].source = candidates[r].source
        /\ LET groups == MergeGroups(candidates)
           IN  /\ Len(ref_merged) = Len(groups)
               /\ \A j \in DOMAIN ref_merged :
                      Cardinality(groups[j]) >= 2 => ref_merged[j] \notin DOMAIN candidates

\* three candidates handed in out of order: two are folded into a new object whose
\* type is not that of the accumulator, the third is returned itself
C24_Witness ==
    /\ pc = "merged_objects" /\ Len(candidates) = 3 /\ Len(ref_merged) = 2
    /\ candidates[1].start > candidates[2].start
    /\ ref_merged[1] > 3 /\ ref_merged[2] <= 3
    /\ \E r \in DOMAIN candidates :
           /\ heap[ref_merged[1]].start = candidates[r].start
           /\ heap[ref_merged[1]].entity_type # candidates[r].entity_type
           /\ heap[ref_merged[1]].confidence > candidates[r].confidence
    /\ [j \in DOMAIN ref_merged |-> heap[ref_merged[j]]] = MergeEntities(candidates)

----------------------------------------------------------------------------
(* The server's Model: the claim checked under SpecServer *)

\* C30 as stated: inference is possible only after a completed load: infer while
\* is_loaded is false raises RuntimeError("Model not loaded") without touching a
\* detector, and in every state between calls, also after a load whose detector
\* construction failed, is_loaded = true implies that a detector is attached.
C30_LoadedImpliesDetector ==
    /\ (pc = "idle" /\ ~is_loaded /\ outcome # NoneValue) => outcome = ModelNotLoaded
    /\ (outcome # NoneValue /\ outcome[1] = "result") =>
           is_loaded /\ detector = SpacyNERPIIDetector
    /\ (pc = "idle" /\ is_loaded) => detector = SpacyNERPIIDetector

====
